---- MODULE Spec2Model ----
(***************************************************************************)
(* Model of the StackSlice import pipeline (src/data_importer.py) as a     *)
(* state machine: the DuckDB store, the command-line entry point main(),   *)
(* the importer's construction, the six per-entity imports of              *)
(* import_site_data (existence check, DELETE, iterparse, the batch loop,   *)
(* the remainder flush), get_site_stats and close; import_all_sites of     *)
(* src/run.py with its pre-check of an existing database; and the          *)
(* conversions safe_int, safe_bool and parse_date on their own.            *)
(*                                                                         *)
(* Values.  An optional value is a sequence of length at most one: <<>> is *)
(* Python's None / SQL NULL, <<v>> is the value v.  A raw integer          *)
(* attribute is an optional sequence of one-character strings              *)
(* (<<<<"4","2">>>> is the attribute value "42", <<<<>>>> the empty        *)
(* string, <<>> an absent attribute).  A raw date attribute is an optional *)
(* string.                                                                 *)
(***************************************************************************)
EXTENDS Integers, Sequences, FiniteSets, TLC

\* ---------------------------------------------------------------- bounds
\* Number of site imports (invocations of main) explored.
MaxImports == 2
\* The batch threshold of the model; the program's literal is 1000.
BatchSize == 2
\* In the runs with termination: the number of invocations, restarts
\* included, and the number of times one invocation is terminated.
MaxRuns == 3
MaxKills == 1
\* In the runs over batch thresholds: the largest threshold and the longest
\* stream of rows.
MaxThreshold == 3
MaxStream == 7
\* The longest raw attribute strings the conversions are applied to.
MaxIntLen == 3
MaxBoolLen == 4
\* Number of invocations in the runs over the orders of the tables.
MaxPermRuns == 2

\* ---------------------------------------------------------------- values
None == <<>>
Some(v) == <<v>>

Sites == {"a", "b"}

\* get_site_stats' table list; import_site_data imports them in this order
\* (posts, users, comments, then votes, tags, badges in import_other_tables).
Tables == <<"posts", "users", "comments", "votes", "tags", "badges">>
TableSet == {Tables[i] : i \in 1..Len(Tables)}
NumTables == Len(Tables)

\* ------------------------------------------------------- field coercion
Digits == <<"0", "1", "2", "3", "4", "5", "6", "7", "8", "9">>
IsDigit(c) == \E i \in 1..10 : Digits[i] = c
DigitVal(c) == (CHOOSE i \in 1..10 : Digits[i] = c) - 1
IsSpace(c) == c = " "

RECURSIVE LStrip(_)
LStrip(s) == IF s # <<>> /\ IsSpace(Head(s)) THEN LStrip(Tail(s)) ELSE s
RECURSIVE RStrip(_)
RStrip(s) ==
  IF s # <<>> /\ IsSpace(s[Len(s)]) THEN RStrip(SubSeq(s, 1, Len(s) - 1)) ELSE s
Strip(s) == RStrip(LStrip(s))

\* The digit part of a Python integer literal: digits, single underscores
\* allowed between digits.
DigitsOk(s) ==
  /\ s # <<>>
  /\ IsDigit(s[1]) /\ IsDigit(s[Len(s)])
  /\ \A i \in 1..Len(s) : IsDigit(s[i]) \/ s[i] = "_"
  /\ \A i \in 1..(Len(s) - 1) : ~(s[i] = "_" /\ s[i + 1] = "_")

RECURSIVE DigitsValue(_, _)
DigitsValue(s, acc) ==
  IF s = <<>> THEN acc
  ELSE IF Head(s) = "_" THEN DigitsValue(Tail(s), acc)
  ELSE DigitsValue(Tail(s), 10 * acc + DigitVal(Head(s)))

\* An int() that takes no sign (used to test the properties).
PyIntUnsigned(s) ==
  LET t == Strip(s)
  IN  IF ~DigitsOk(t) THEN None ELSE Some(DigitsValue(t, 0))

\* Python's int(str): surrounding whitespace stripped, optional sign, decimal
\* digits; <<>> stands for the ValueError.
PyInt(s) ==
  LET t == Strip(s)
      signed == t # <<>> /\ Head(t) \in {"+", "-"}
      body == IF signed THEN Tail(t) ELSE t
  IN  IF ~DigitsOk(body) THEN None
      ELSE IF signed /\ Head(t) = "-" THEN Some(0 - DigitsValue(body, 0))
      ELSE Some(DigitsValue(body, 0))

\* safe_int: None for a falsy value (None or ""), None when int() raises.
safe_int(value) ==
  IF value = None \/ value[1] = <<>> THEN None ELSE PyInt(value[1])

\* str.lower() on the letters of the model.
UpperCase == <<"T", "R", "U", "E", "F", "A", "L", "S", "Y">>
LowerCase == <<"t", "r", "u", "e", "f", "a", "l", "s", "y">>
LowerChar(c) ==
  IF \E i \in DOMAIN UpperCase : UpperCase[i] = c
  THEN LowerCase[CHOOSE i \in DOMAIN UpperCase : UpperCase[i] = c]
  ELSE c
Lower(s) == [i \in 1..Len(s) |-> LowerChar(s[i])]

\* A comparison with 'true' that leaves the case as it is (used to test the
\* properties).
safe_boolCaseSensitive(value) ==
  IF value = None \/ value[1] = <<>> THEN None
  ELSE Some(value[1] = <<"t", "r", "u", "e">>)

\* safe_bool: None for a falsy value, else value.lower() == 'true'.
safe_bool(value) ==
  IF value = None \/ value[1] = <<>> THEN None
  ELSE Some(Lower(value[1]) = <<"t", "r", "u", "e">>)

\* The exception that leaves a conversion ("" when none): int() raises
\* ValueError inside safe_int's try, whose bare except returns None; lower()
\* and the comparisons raise nothing on a string.
Escapes(fn, value) ==
  IF fn = "safe_int" /\ value # None /\ value[1] # <<>>
       /\ PyInt(value[1]) = None
  THEN LET raised == "ValueError"
           caught == TRUE
       IN  IF caught THEN "" ELSE raised
  ELSE ""

\* parse_date: None for a falsy value, the string itself otherwise (the try
\* block only returns its argument, so the except branch is never taken).
parse_date(date_str) ==
  IF date_str = None \/ date_str[1] = "" THEN None ELSE date_str

\* ---------------------------------------------------------------- store
\* A stored row: the site, the id column, the table's second integer column
\* (post_type_id, reputation, post_id, post_id, count, user_id) and its first
\* TIMESTAMP column (tags has none).
MkRow(site_name, id, num, date) ==
  [site |-> site_name, id |-> id, num |-> num, date |-> date]

\* comments.post_id and votes.post_id are declared NOT NULL.
NumNotNull(t) == t \in {"comments", "votes"}
\* Every table but tags has a TIMESTAMP column.
HasDate(t) == t # "tags"

\* The strings DuckDB casts to TIMESTAMP (ISO-8601, "T" separator).
ValidDates == {"2020-01-01T00:00:00.000"}
TimestampOk(d) == d = None \/ d[1] \in ValidDates

\* A table declared without its primary key (used to test the properties).
PKViolationNoCheck(tbl, row) == FALSE

\* PRIMARY KEY (site, id): the row's key is already in the table.
PKViolation(tbl, row) ==
  \E i \in 1..Len(tbl) : tbl[i].site = row.site /\ tbl[i].id = row.id

\* NOT NULL constraints of CREATE TABLE: id everywhere, post_id in comments
\* and votes.
NotNullViolation(t, row) ==
  \/ row.id = None
  \/ NumNotNull(t) /\ row.num = None

\* One INSERT of one row: the table afterwards, and the error DuckDB raises
\* ("" when the row was inserted).
InsertRow(t, tbl, row) ==
  IF ~TimestampOk(row.date) THEN [err |-> "Conversion", tbl |-> tbl]
  ELSE IF NotNullViolation(t, row) THEN [err |-> "NotNull", tbl |-> tbl]
  ELSE IF PKViolation(tbl, row) THEN [err |-> "PrimaryKey", tbl |-> tbl]
  ELSE [err |-> "", tbl |-> Append(tbl, row)]

\* conn.executemany: the INSERT is executed once per parameter row, each
\* execution committed on its own (the connection is in autocommit mode), and
\* the first failing row raises, leaving the rows before it inserted.
RECURSIVE ExecuteMany(_, _, _)
ExecuteMany(t, tbl, batch) ==
  IF batch = <<>> THEN [err |-> "", tbl |-> tbl]
  ELSE LET r == InsertRow(t, tbl, Head(batch))
       IN  IF r.err = "" THEN ExecuteMany(t, r.tbl, Tail(batch)) ELSE r

\* Variants of the DELETE with a wrong WHERE clause (used to test the
\* properties below): one that leaves the site's first row behind, one that
\* matches no row, one without the WHERE clause.
DeleteSitePartial(tbl, site_name) ==
  LET mine == SelectSeq(tbl, LAMBDA r : r.site = site_name)
  IN  SelectSeq(tbl, LAMBDA r : r.site # site_name \/ r = mine[1])
DeleteSiteNothing(tbl, site_name) == tbl
DeleteSiteAll(tbl, site_name) == <<>>

\* DELETE FROM <table> WHERE site = ?
DeleteSite(tbl, site_name) == SelectSeq(tbl, LAMBDA r : r.site # site_name)

\* SELECT COUNT(*) FROM <table> WHERE site = ?
CountSite(tbl, site_name) == Len(SelectSeq(tbl, LAMBDA r : r.site = site_name))

\* The rows of one site in one table, as a set and in stored order.
SiteRows(tbl, site_name) == SelectSeq(tbl, LAMBDA r : r.site = site_name)
RowSet(tbl) == {tbl[i] : i \in 1..Len(tbl)}

\* ------------------------------------------------------------ XML files
\* An element of the document: its tag and the attributes the import reads.
Elem(tag, Id, Num, Date) == [tag |-> tag, Id |-> Id, Num |-> Num, Date |-> Date]

GoodDate == Some("2020-01-01T00:00:00.000")
BadDate == Some("yesterday")
S1 == Some(<<"1">>)
S2 == Some(<<"2">>)
S3 == Some(<<"3">>)
S5 == Some(<<"5">>)
S12 == Some(<<"1", "2">>)
SAbc == Some(<<"a", "b", "c">>)
SEmpty == Some(<<>>)

R1 == Elem("row", S1, S5, GoodDate)
R2 == Elem("row", S2, S1, GoodDate)
R3 == Elem("row", S3, SEmpty, None)
R12 == Elem("row", S12, S2, Some(""))
RBadNum == Elem("row", S2, SAbc, GoodDate)
RNoNum == Elem("row", S3, None, GoodDate)
RBadId == Elem("row", SAbc, S1, GoodDate)
RNoId == Elem("row", None, S1, GoodDate)
RBadDate == Elem("row", S2, S1, BadDate)
ROther == Elem("meta", S1, S1, GoodDate)

\* A file of the data folder: present or not; when present, whether the root
\* start tag parses, the elements the parser yields, and whether the parser
\* raises XMLSyntaxError after the last of them.
Doc(elems, err) == [present |-> TRUE, root |-> TRUE, elems |-> elems, err |-> err]
DAbsent == [present |-> FALSE, root |-> FALSE, elems |-> <<>>, err |-> FALSE]
DNoRoot == [present |-> TRUE, root |-> FALSE, elems |-> <<>>, err |-> TRUE]
DEmpty == Doc(<<>>, FALSE)
D1 == Doc(<<R1>>, FALSE)
D12 == Doc(<<R1, R2>>, FALSE)
D123 == Doc(<<R1, R2, R3>>, FALSE)
D3 == Doc(<<R3, ROther, R12>>, FALSE)
DDup == Doc(<<R1, R2, R1>>, FALSE)
DBadXml == Doc(<<R1>>, TRUE)
DBadId == Doc(<<R1, RBadId>>, FALSE)
DNoId == Doc(<<RNoId>>, FALSE)
DBadNum == Doc(<<R1, RBadNum, RNoNum>>, FALSE)
DBadDate == Doc(<<R1, RBadDate>>, FALSE)

\* The decimal digits of a natural number.
RECURSIVE DecDigits(_)
DecDigits(n) ==
  IF n < 10 THEN <<Digits[n + 1]>>
  ELSE Append(DecDigits(n \div 10), Digits[(n % 10) + 1])

\* A stream of n rows with the distinct ids 1..n.
StreamDoc(n) ==
  Doc([i \in 1..n |-> Elem("row", Some(DecDigits(i)), S1, GoodDate)], FALSE)

\* A data folder: whether it exists and its six files.
Folder(p, u, c, v, t, b) ==
  [exists |-> TRUE,
   files |-> [x \in TableSet |->
                CASE x = "posts" -> p [] x = "users" -> u [] x = "comments" -> c
                  [] x = "votes" -> v [] x = "tags" -> t [] OTHER -> b]]
MissingFolder == [exists |-> FALSE, files |-> [x \in TableSet |-> DAbsent]]

Folders ==
  { MissingFolder,
    Folder(D12, D12, D12, D12, D12, D12),
    Folder(D3, D123, DEmpty, DAbsent, D3, DAbsent),
    Folder(D1, DAbsent, DAbsent, DAbsent, DAbsent, DAbsent),
    Folder(DDup, D12, DAbsent, DAbsent, DAbsent, DAbsent),
    Folder(D12, DBadXml, D12, DAbsent, DAbsent, DAbsent),
    Folder(DBadNum, DAbsent, DBadNum, D12, DAbsent, DAbsent),
    Folder(DAbsent, DAbsent, DAbsent, DNoRoot, D12, DAbsent),
    Folder(DAbsent, DBadDate, DAbsent, DAbsent, DBadId, D12),
    Folder(DAbsent, DAbsent, DAbsent, DAbsent, DBadDate, DNoId) }

\* The folders the runs with termination and restart draw from.
KillFolders ==
  { Folder(D12, D12, D12, D12, D12, D12),
    Folder(D3, D123, DEmpty, DAbsent, D3, DAbsent),
    Folder(DDup, D12, DAbsent, DAbsent, DAbsent, DAbsent),
    Folder(D12, DBadXml, D12, DAbsent, DAbsent, DAbsent) }

\* A tuple built with a fixed site instead of site_name (used to test the
\* properties).
RowDataWrongSite(t, site_name, elem) ==
  MkRow("a", safe_int(elem.Id), safe_int(elem.Num),
        IF HasDate(t) THEN parse_date(elem.Date) ELSE None)

\* The tuple built from one row element (post_data, user_data, ...).
RowData(t, site_name, elem) ==
  MkRow(site_name, safe_int(elem.Id), safe_int(elem.Num),
        IF HasDate(t) THEN parse_date(elem.Date) ELSE None)

\* ---------------------------------------------------------------- state
VARIABLES
  store,     \* the database: table name -> sequence of rows
  created,   \* the tables that exist in the database
  conn,      \* the importer's connection: "none", "open" or "closed"
  pc,        \* where the running invocation stands ("idle": none is running)
  site,      \* --site of the current (or last) invocation
  folder,    \* --data-folder of the current (or last) invocation
  ent,       \* index in Tables of the entity type being imported
  pos,       \* index of the next element the parser yields
  batch,     \* the batch list of the running import function
  outcome,   \* how the last invocation ended: "none", "ok", "error", "exit1"
  failed,    \* the table whose import raised in the last invocation, or ""
  error,     \* the exception that ended the last invocation, or ""
  stats,     \* what get_site_stats returned in the last invocation
  imports,   \* number of invocations started
  runStart,  \* history: the store when the current invocation started
  entStart,  \* history: the store when the current entity import started
  began,     \* history: the tables whose import this invocation has entered
  lastImp,   \* history: per (site, table), the file and the resulting rows
             \* of the last two finished imports of that table for that site
  restart,   \* history: the terminations of the current invocation, whether
             \* it is to be run again, and the store when it first started
  batch_size, \* the batch threshold of the import functions
  order,     \* the order in which import_site_data imports the tables
  data,      \* run.py: site -> the contents of data/<site>
  requested, \* run.py: the sites get_sites_to_import returned
  queue,     \* run.py: the sites import_all_sites has still to import
  plan,      \* run.py: the list the loop of import_all_sites runs over
  checkconn, \* run.py: the pre-check's connection: "none", "open", "closed"
  coerce,    \* a raw attribute value and what a conversion made of it
  log        \* history: the statements the current invocation has issued

vars ==
  <<store, created, conn, pc, site, folder, ent, pos, batch, outcome, failed,
    error, stats, imports, runStart, entStart, began, lastImp, restart,
    batch_size, order, data, requested, queue, plan, checkconn, coerce, log>>

\* What no step of an import changes: the threshold, the order of the tables,
\* the data folders, the requested sites, the list and the connection of the
\* pre-check, and the conversion under test.
fixed == <<batch_size, order, data, requested, plan, checkconn, coerce>>

EmptyStore == [t \in TableSet |-> <<>>]
NoStats == [t \in TableSet |-> 0]
NoRestart ==
  [kills |-> 0, pending |-> FALSE, at |-> "", start |-> EmptyStore,
   partial |-> EmptyStore]
NoImp ==
  [n |-> 0, doc |-> DAbsent, rows |-> <<>>, pdoc |-> DAbsent, prows |-> <<>>]
NoCoerce ==
  [fn |-> "", raw |-> None, done |-> FALSE, out |-> None, exc |-> ""]

\* import_site_data's order: posts, users, comments, votes, tags, badges.
SourceOrder == [i \in 1..NumTables |-> i]

\* The state before the first invocation, the threshold, the order of the
\* tables and the data folders left open.
InitRun ==
  /\ store = EmptyStore
  /\ created = {}
  /\ conn = "none"
  /\ pc = "idle"
  /\ site = "a"
  /\ folder = MissingFolder
  /\ ent = 1
  /\ pos = 1
  /\ batch = <<>>
  /\ outcome = "none"
  /\ failed = ""
  /\ error = ""
  /\ stats = NoStats
  /\ imports = 0
  /\ runStart = EmptyStore
  /\ entStart = EmptyStore
  /\ began = <<>>
  /\ lastImp = [s \in Sites |-> [t \in TableSet |-> NoImp]]
  /\ restart = NoRestart
  /\ requested = <<>>
  /\ queue = <<>>
  /\ plan = <<>>
  /\ checkconn = "none"
  /\ coerce = NoCoerce
  /\ log = <<>>

Init ==
  /\ InitRun
  /\ batch_size = BatchSize
  /\ order = SourceOrder
  /\ data = [s \in Sites |-> MissingFolder]

\* import_site_data calling import_users before import_posts (used to test
\* the properties).
CurTableSwapped ==
  Tables[order[IF ent = 1 THEN 2 ELSE IF ent = 2 THEN 1 ELSE ent]]

\* The table of the import function import_site_data is in.
CurTable == Tables[order[ent]]
CurDoc == folder.files[CurTable]

\* A statement as the database receives it: the operation, the site and the
\* table it names, the rows an executemany carries, and whether the table
\* exists at that moment.
Stmt(op, rows) ==
  [op |-> op, site |-> site, table |-> CurTable, rows |-> rows,
   existed |-> CurTable \in created]

\* History bookkeeping: the import of table t for the current site has
\* finished (skipped, completed or raised) leaving table contents tbl.
Recorded(t, tbl) ==
  LET old == lastImp[site][t]
  IN  [lastImp EXCEPT ![site][t] =
         [n |-> IF old.n < 2 THEN old.n + 1 ELSE 2,
          doc |-> folder.files[t], rows |-> SiteRows(tbl, site),
          pdoc |-> old.doc, prows |-> old.rows]]

\* A main() without the data-folder check (used to test the properties).
StartNoCheck(s, f) ==
  /\ pc = "idle"
  /\ site' = s
  /\ folder' = f
  /\ runStart' = store
  /\ entStart' = store
  /\ failed' = ""
  /\ error' = ""
  /\ began' = <<>>
  /\ stats' = NoStats
  /\ pc' = "init"
  /\ outcome' = "none"
  /\ log' = <<>>
  /\ UNCHANGED <<store, created, conn, ent, pos, batch, lastImp, fixed, queue>>

\* main(): the data-folder check, sys.exit(1) when it does not exist.
Start(s, f) ==
  /\ pc = "idle"
  /\ site' = s
  /\ folder' = f
  /\ runStart' = store
  /\ entStart' = store
  /\ failed' = ""
  /\ error' = ""
  /\ began' = <<>>
  /\ stats' = NoStats
  /\ IF f.exists
     THEN pc' = "init" /\ outcome' = "none"
     ELSE pc' = "idle" /\ outcome' = "exit1"
  /\ log' = <<>>
  /\ UNCHANGED <<store, created, conn, ent, pos, batch, lastImp, fixed, queue>>

\* A new invocation of the command line.
Invoke(s, f) ==
  /\ ~restart.pending
  /\ imports' = imports + 1
  /\ restart' = NoRestart
  /\ Start(s, f)

Main(s, f) == imports < MaxImports /\ Invoke(s, f)

\* A constructor that connects and creates no table (used to test the
\* properties).
ConstructNoTables ==
  /\ pc = "init"
  /\ conn' = "open"
  /\ pc' = "check"
  /\ ent' = 1
  /\ UNCHANGED <<site, folder, queue>>
  /\ UNCHANGED <<store, created, pos, batch, outcome, failed, error, stats,
                 imports, runStart, entStart, began, lastImp, restart, fixed,
                 log>>

\* StackExchangeDataImporter.__init__: connect, then create_tables.  In
\* import_all_sites the loop over the sites follows and takes the first site.
Construct ==
  /\ pc = "init"
  /\ conn' = "open"
  /\ created' = TableSet
  /\ pc' = "check"
  /\ ent' = 1
  /\ IF queue = <<>>
     THEN UNCHANGED <<site, folder, queue>>
     ELSE /\ site' = Head(queue)
          /\ folder' = data[Head(queue)]
          /\ queue' = Tail(queue)
  /\ UNCHANGED <<store, pos, batch, outcome, failed, error, stats, imports,
                 runStart, entStart, began, lastImp, restart, fixed, log>>

\* Control moves on from the import of the current table: to the next table,
\* or to get_site_stats after the last.
Advance ==
  IF ent < NumTables
  THEN pc' = "check" /\ ent' = ent + 1
  ELSE pc' = "stats" /\ ent' = 1

\* An exception that is logged and swallowed, the import going on with the
\* next table (used to test the properties).
RaiseSwallowed(e) ==
  /\ Advance
  /\ conn' = conn
  /\ outcome' = "error"
  /\ failed' = CurTable
  /\ error' = e
  /\ pos' = 1
  /\ batch' = <<>>

\* Exception e leaves import_site_data: main's finally closes the importer
\* and the exception ends the invocation.
Raise(e) ==
  /\ pc' = "idle"
  /\ conn' = "closed"
  /\ outcome' = "error"
  /\ failed' = CurTable
  /\ error' = e
  /\ ent' = 1
  /\ pos' = 1
  /\ batch' = <<>>

\* An existence check placed after the DELETE, so that an absent file still
\* clears the site's rows (used to test the properties).
CheckFileClearing ==
  /\ pc = "check"
  /\ entStart' = store
  /\ began' = Append(began, CurTable)
  /\ IF CurDoc.present
     THEN /\ pc' = "delete"
          /\ UNCHANGED <<store, ent, lastImp>>
     ELSE /\ Advance
          /\ store' = [store EXCEPT ![CurTable] = DeleteSite(@, site)]
          /\ lastImp' = Recorded(CurTable, store'[CurTable])
  /\ UNCHANGED <<created, conn, site, folder, pos, batch, outcome,
                 failed, error, stats, imports, runStart, restart, fixed, queue, log>>

\* "if not posts_file.exists(): return" / "if votes_file.exists():"
CheckFile ==
  /\ pc = "check"
  /\ entStart' = store
  /\ began' = Append(began, CurTable)
  /\ IF CurDoc.present
     THEN /\ pc' = "delete"
          /\ UNCHANGED <<ent, lastImp>>
     ELSE /\ Advance
          /\ lastImp' = Recorded(CurTable, store[CurTable])
  /\ UNCHANGED <<store, created, conn, site, folder, pos, batch, outcome,
                 failed, error, stats, imports, runStart, restart, fixed, queue, log>>

\* Every import function clearing the site's rows of posts instead of those
\* of its own table (used to test the properties).
DeleteFromPosts ==
  /\ pc = "delete"
  /\ log' = Append(log, Stmt("delete", <<>>))
  /\ store' = [store EXCEPT !["posts"] = DeleteSite(@, site)]
  /\ pc' = "open"
  /\ UNCHANGED <<conn, ent, pos, batch, outcome, failed, error, lastImp>>
  /\ UNCHANGED <<created, site, folder, stats, imports, runStart, entStart,
                 began, restart, fixed, queue>>

\* conn.execute("DELETE FROM <table> WHERE site = ?", [site_name])
Delete ==
  /\ pc = "delete"
  /\ log' = Append(log, Stmt("delete", <<>>))
  /\ IF CurTable \in created
     THEN /\ store' = [store EXCEPT ![CurTable] = DeleteSite(@, site)]
          /\ pc' = "open"
          /\ UNCHANGED <<conn, ent, pos, batch, outcome, failed, error,
                         lastImp>>
     ELSE /\ Raise("Catalog")
          /\ lastImp' = Recorded(CurTable, store[CurTable])
          /\ UNCHANGED store
  /\ UNCHANGED <<created, site, folder, stats, imports, runStart, entStart,
                 began, restart, fixed, queue>>

\* etree.iterparse(...); event, root = next(parser); batch = []
Open ==
  /\ pc = "open"
  /\ IF CurDoc.root
     THEN /\ pc' = "loop"
          /\ pos' = 1
          /\ batch' = <<>>
          /\ UNCHANGED <<conn, ent, outcome, failed, error, lastImp>>
     ELSE /\ Raise("XMLSyntax")
          /\ lastImp' = Recorded(CurTable, store[CurTable])
  /\ UNCHANGED <<store, created, site, folder, stats, imports, runStart,
                 entStart, began, restart, fixed, queue, log>>

\* The loop writing the batch only when it has grown past the threshold,
\* "len(batch) > batch_size" (used to test the properties).
LoopPastThreshold ==
  /\ pc = "loop"
  /\ IF pos <= Len(CurDoc.elems)
     THEN LET elem == CurDoc.elems[pos]
              b == IF elem.tag = "row"
                   THEN Append(batch, RowData(CurTable, site, elem))
                   ELSE batch
              r == ExecuteMany(CurTable, store[CurTable], b)
          IN  IF Len(b) > batch_size /\ elem.tag = "row"
              THEN /\ store' = [store EXCEPT ![CurTable] = r.tbl]
                   /\ log' = Append(log, Stmt("insert", b))
                   /\ IF r.err = ""
                      THEN /\ batch' = <<>>
                           /\ pos' = pos + 1
                           /\ UNCHANGED <<pc, conn, ent, outcome, failed, error,
                                          lastImp>>
                      ELSE /\ Raise(r.err)
                           /\ lastImp' = Recorded(CurTable, r.tbl)
              ELSE /\ batch' = b
                   /\ pos' = pos + 1
                   /\ UNCHANGED <<store, pc, conn, ent, outcome, failed, error,
                                  lastImp, log>>
     ELSE IF CurDoc.err
          THEN /\ Raise("XMLSyntax")
               /\ lastImp' = Recorded(CurTable, store[CurTable])
               /\ UNCHANGED <<store, log>>
          ELSE /\ pc' = "final"
               /\ UNCHANGED <<store, conn, ent, pos, batch, outcome, failed,
                              error, lastImp, log>>
  /\ UNCHANGED <<created, site, folder, stats, imports, runStart, entStart,
                 began, restart, fixed, queue>>

\* One iteration of "for event, elem in parser": a row element is converted
\* and appended, and the batch is written when it reaches the threshold; the
\* parser raises at a syntax error; the loop ends at the end of the stream.
Loop ==
  /\ pc = "loop"
  /\ IF pos <= Len(CurDoc.elems)
     THEN LET elem == CurDoc.elems[pos]
              b == IF elem.tag = "row"
                   THEN Append(batch, RowData(CurTable, site, elem))
                   ELSE batch
              r == ExecuteMany(CurTable, store[CurTable], b)
          IN  IF Len(b) >= batch_size /\ elem.tag = "row"
              THEN /\ store' = [store EXCEPT ![CurTable] = r.tbl]
                   /\ log' = Append(log, Stmt("insert", b))
                   /\ IF r.err = ""
                      THEN /\ batch' = <<>>
                           /\ pos' = pos + 1
                           /\ UNCHANGED <<pc, conn, ent, outcome, failed, error,
                                          lastImp>>
                      ELSE /\ Raise(r.err)
                           /\ lastImp' = Recorded(CurTable, r.tbl)
              ELSE /\ batch' = b
                   /\ pos' = pos + 1
                   /\ UNCHANGED <<store, pc, conn, ent, outcome, failed, error,
                                  lastImp, log>>
     ELSE IF CurDoc.err
          THEN /\ Raise("XMLSyntax")
               /\ lastImp' = Recorded(CurTable, store[CurTable])
               /\ UNCHANGED <<store, log>>
          ELSE /\ pc' = "final"
               /\ UNCHANGED <<store, conn, ent, pos, batch, outcome, failed,
                              error, lastImp, log>>
  /\ UNCHANGED <<created, site, folder, stats, imports, runStart, entStart,
                 began, restart, fixed, queue>>

\* The function returning after the loop without writing the remainder (used
\* to test the properties).
FinalNoFlush ==
  /\ pc = "final"
  /\ lastImp' = Recorded(CurTable, store[CurTable])
  /\ Advance
  /\ pos' = 1
  /\ batch' = <<>>
  /\ UNCHANGED <<store, conn, outcome, failed, error, log>>
  /\ UNCHANGED <<created, site, folder, stats, imports, runStart, entStart,
                 began, restart, fixed, queue>>

\* "if batch: conn.executemany(...)" after the loop, then the function returns.
Final ==
  /\ pc = "final"
  /\ LET r == IF batch # <<>>
              THEN ExecuteMany(CurTable, store[CurTable], batch)
              ELSE [err |-> "", tbl |-> store[CurTable]]
     IN  /\ store' = [store EXCEPT ![CurTable] = r.tbl]
         /\ log' = IF batch # <<>> THEN Append(log, Stmt("insert", batch))
                   ELSE log
         /\ lastImp' = Recorded(CurTable, r.tbl)
         /\ IF r.err = ""
            THEN /\ Advance
                 /\ pos' = 1
                 /\ batch' = <<>>
                 /\ UNCHANGED <<conn, outcome, failed, error>>
            ELSE Raise(r.err)
  /\ UNCHANGED <<created, site, folder, stats, imports, runStart, entStart,
                 began, restart, fixed, queue>>

\* get_site_stats(site_name): COUNT(*) per table, 0 when the query raises.
SiteStats(st, cr, site_name) ==
  [t \in TableSet |-> IF t \in cr THEN CountSite(st[t], site_name) ELSE 0]

\* After the statistics of a site import_all_sites goes on with the next
\* site of its loop; main, importing one site, has none.
Stats ==
  /\ pc = "stats"
  /\ stats' = SiteStats(store, created, site)
  /\ IF queue = <<>>
     THEN /\ pc' = "close"
          /\ UNCHANGED <<site, folder, queue, began>>
     ELSE /\ pc' = "check"
          /\ site' = Head(queue)
          /\ folder' = data[Head(queue)]
          /\ queue' = Tail(queue)
          /\ began' = <<>>
  /\ UNCHANGED <<store, created, conn, ent, pos, batch, outcome, failed, error,
                 imports, runStart, entStart, lastImp, restart, fixed, log>>

\* finally: importer.close()
Close ==
  /\ pc = "close"
  /\ conn' = "closed"
  /\ outcome' = "ok"
  /\ pc' = "idle"
  /\ UNCHANGED <<store, created, site, folder, ent, pos, batch, failed, error,
                 stats, imports, runStart, entStart, began, lastImp, restart,
                 fixed, queue, log>>

\* The process is terminated (the only cancellation there is): the
\* connection is gone with it, every statement executed so far is committed.
Terminate ==
  /\ pc # "idle"
  /\ restart.kills < MaxKills
  /\ restart' = [kills |-> restart.kills + 1, pending |-> TRUE, at |-> pc,
                 start |-> IF restart.kills = 0 THEN runStart ELSE restart.start,
                 partial |-> store]
  /\ pc' = "idle"
  /\ conn' = "none"
  /\ outcome' = "killed"
  /\ ent' = 1
  /\ pos' = 1
  /\ batch' = <<>>
  /\ UNCHANGED <<store, created, site, folder, failed, error, stats, imports,
                 runStart, entStart, began, lastImp, fixed, queue, log>>

\* The terminated invocation is run again with the same arguments.
Rerun ==
  /\ restart.pending
  /\ imports < MaxRuns
  /\ imports' = imports + 1
  /\ restart' = [restart EXCEPT !.pending = FALSE]
  /\ Start(site, folder)

\* A new invocation in the runs with termination.
MainKill(s, f) == imports < MaxRuns /\ Invoke(s, f)

\* import_posts, import_users, import_comments and the three blocks of
\* import_other_tables as functions of the table's contents: the rows after
\* the import of one file, and the error it raised ("" when none).
RECURSIVE Feed(_, _, _, _, _, _)
Feed(t, tbl, site_name, elems, b0, err) ==
  IF elems = <<>>
  THEN IF err THEN [err |-> "XMLSyntax", tbl |-> tbl]
       ELSE ExecuteMany(t, tbl, b0)
  ELSE LET elem == Head(elems)
           b == IF elem.tag = "row"
                THEN Append(b0, RowData(t, site_name, elem))
                ELSE b0
       IN  IF elem.tag = "row" /\ Len(b) >= batch_size
           THEN LET r == ExecuteMany(t, tbl, b)
                IN  IF r.err = ""
                    THEN Feed(t, r.tbl, site_name, Tail(elems), <<>>, err)
                    ELSE r
           ELSE Feed(t, tbl, site_name, Tail(elems), b, err)

ImportTable(t, tbl, site_name, doc) ==
  IF ~doc.present THEN [err |-> "", tbl |-> tbl]
  ELSE LET cleared == DeleteSite(tbl, site_name)
       IN  IF ~doc.root THEN [err |-> "XMLSyntax", tbl |-> cleared]
           ELSE Feed(t, cleared, site_name, doc.elems, <<>>, doc.err)

\* import_site_data as a function of the store: the tables in order, up to
\* and including the first whose import raises.
RECURSIVE ImportFrom(_, _, _, _)
ImportFrom(st, site_name, f, i) ==
  IF i > NumTables THEN st
  ELSE LET t == Tables[i]
           r == ImportTable(t, st[t], site_name, f.files[t])
           st2 == [st EXCEPT ![t] = r.tbl]
       IN  IF r.err = "" THEN ImportFrom(st2, site_name, f, i + 1) ELSE st2

ImportSiteData(st, site_name, f) == ImportFrom(st, site_name, f, 1)

Next ==
  \/ \E s \in Sites, f \in Folders : Main(s, f)
  \/ Construct
  \/ CheckFile
  \/ Delete
  \/ Open
  \/ Loop
  \/ Final
  \/ Stats
  \/ Close

Spec == Init /\ [][Next]_vars

\* The same program with process termination and restart.
NextKill ==
  \/ \E s \in Sites, f \in KillFolders : MainKill(s, f)
  \/ Construct
  \/ CheckFile
  \/ Delete
  \/ Open
  \/ Loop
  \/ Final
  \/ Stats
  \/ Close
  \/ Terminate
  \/ Rerun

SpecKill == Init /\ [][NextKill]_vars

\* The sites in the order of ORDER BY site.
SiteOrder == <<"a", "b">>

\* list_sites(): SELECT DISTINCT site FROM posts ORDER BY site, the empty
\* list when the query raises.
list_sites(st, cr) ==
  IF "posts" \in cr
  THEN SelectSeq(SiteOrder, LAMBDA s : CountSite(st["posts"], s) > 0)
  ELSE <<>>

\* --------------------------------------------- the conversions on their own
SeqsUpTo(A, n) == UNION {[1..k -> A] : k \in 0..n}

\* Raw values of integer attributes: absent, or a string over digits, signs,
\* blank, underscore and other characters; of boolean attributes: absent, or
\* a string over the letters of "true" in both cases and others; of dates.
IntChars == {"4", "2", "0", "-", "+", " ", "_", "a", "."}
IntInputs == {None, SAbc} \cup {Some(x) : x \in SeqsUpTo(IntChars, MaxIntLen)}
BoolChars == {"t", "T", "r", "R", "u", "U", "e", "E", "y", " "}
BoolInputs ==
  {None, Some(<<"f", "a", "l", "s", "e">>), Some(<<"F", "a", "l", "s", "e">>),
   Some(<<"y", "e", "s">>), Some(<<"1">>)}
    \cup {Some(x) : x \in SeqsUpTo(BoolChars, MaxBoolLen)}
DateInputs ==
  {None, Some(""), GoodDate, BadDate, Some("2020-13-45T00:00:00.000"),
   Some("01/02/2020"), Some(" ")}

Call(fn, value, result) ==
  /\ coerce' = [fn |-> fn, raw |-> value, done |-> TRUE, out |-> result,
                exc |-> Escapes(fn, value)]
  /\ UNCHANGED <<store, created, conn, pc, site, folder, ent, pos, batch,
                 outcome, failed, error, stats, imports, runStart, entStart,
                 began, lastImp, restart, batch_size, order, data, requested,
                 queue, plan, checkconn, log>>

\* One call of a conversion on one raw value in each behaviour.
CallSafeInt ==
  /\ ~coerce.done
  /\ \E value \in IntInputs : Call("safe_int", value, safe_int(value))
CallSafeBool ==
  /\ ~coerce.done
  /\ \E value \in BoolInputs : Call("safe_bool", value, safe_bool(value))
CallParseDate ==
  /\ ~coerce.done
  /\ \E date_str \in DateInputs :
        Call("parse_date", date_str, parse_date(date_str))

NextCoerce ==
  \/ CallSafeInt
  \/ CallSafeBool
  \/ CallParseDate

SpecCoerce == Init /\ [][NextCoerce]_vars

\* ------------------------------------------------- run.py: import_all_sites
\* The orders in which a list built from the set S can hold its elements.
Orderings(S) ==
  {q \in [1..Cardinality(S) -> S] : \A x \in S : \E i \in DOMAIN q : q[i] = x}

\* What get_sites_to_import can return: the sites of STACKEXCHANGE_SITES, in
\* the order given.
SiteLists == UNION {Orderings(S) : S \in (SUBSET Sites) \ {{}}}

\* os.path.exists(db_path): duckdb.connect creates the file.
DbExists == created # {} \/ conn # "none"

\* import_all_sites up to the pre-check: sites = get_sites_to_import().
AllStart(sites) ==
  /\ pc = "idle"
  /\ imports < MaxImports
  /\ imports' = imports + 1
  /\ requested' = sites
  /\ queue' = sites
  /\ plan' = sites
  /\ IF DbExists
     THEN pc' = "precheck" /\ checkconn' = "open"
     ELSE pc' = "init" /\ checkconn' = "none"
  /\ outcome' = "none"
  /\ runStart' = store
  /\ entStart' = store
  /\ failed' = ""
  /\ error' = ""
  /\ began' = <<>>
  /\ stats' = NoStats
  /\ log' = <<>>
  /\ UNCHANGED <<store, created, conn, site, folder, ent, pos, batch, lastImp,
                 restart, batch_size, order, data, coerce>>

\* The pre-check of an existing database: the sites that have posts rows are
\* dropped from the list, and the function returns True when none is left;
\* list(sites_to_import) holds the rest in the set's order.  When the posts
\* table does not exist the query raises and the list stays as it is.
PreCheck ==
  /\ pc = "precheck"
  /\ checkconn' = "closed"
  /\ IF "posts" \in created
     THEN LET existing_sites ==
                {s \in Sites : CountSite(store["posts"], s) > 0}
              sites_to_import ==
                {queue[i] : i \in DOMAIN queue} \ existing_sites
          IN  IF sites_to_import = {}
              THEN pc' = "idle" /\ outcome' = "ok" /\ queue' = <<>>
              ELSE /\ pc' = "init"
                   /\ queue' \in Orderings(sites_to_import)
                   /\ UNCHANGED outcome
     ELSE pc' = "init" /\ UNCHANGED <<queue, outcome>>
  /\ plan' = queue'
  /\ UNCHANGED <<store, created, conn, site, folder, ent, pos, batch, failed,
                 error, stats, imports, runStart, entStart, began, lastImp,
                 restart, batch_size, order, data, requested, coerce, log>>

\* The error import_site_data raises from the store st ("" when none).
RECURSIVE ImportErrFrom(_, _, _, _)
ImportErrFrom(st, site_name, f, i) ==
  IF i > NumTables THEN ""
  ELSE LET t == Tables[i]
           r == ImportTable(t, st[t], site_name, f.files[t])
       IN  IF r.err = ""
           THEN ImportErrFrom([st EXCEPT ![t] = r.tbl], site_name, f, i + 1)
           ELSE r.err

\* The loop of import_all_sites over a list of sites as a function of the
\* store: every site of the list imported in turn, up to and including the
\* first whose import raises.
RECURSIVE ImportSites(_, _)
ImportSites(st, sites) ==
  IF sites = <<>> THEN st
  ELSE LET s == Head(sites)
           st2 == ImportSiteData(st, s, data[s])
       IN  IF ImportErrFrom(st, s, data[s], 1) = ""
           THEN ImportSites(st2, Tail(sites))
           ELSE st2

\* The data folders of run.py: main has check_site_data find all six files
\* of every site before import_all_sites is called.
AllFolders ==
  { Folder(D12, D12, D12, D12, D12, D12),
    Folder(D1, D123, DEmpty, D1, D3, D1),
    Folder(D12, DBadXml, D12, D12, D12, D12),
    Folder(DNoRoot, D12, D12, D12, D12, D12),
    Folder(DEmpty, D12, D1, D12, D12, DDup) }

InitAll ==
  /\ InitRun
  /\ batch_size = BatchSize
  /\ order = SourceOrder
  /\ data \in [Sites -> AllFolders]

NextAll ==
  \/ \E sites \in SiteLists : AllStart(sites)
  \/ PreCheck
  \/ Construct
  \/ CheckFile
  \/ Delete
  \/ Open
  \/ Loop
  \/ Final
  \/ Stats
  \/ Close

SpecAll == InitAll /\ [][NextAll]_vars

\* StackExchangeDataImporter(db_path) raising in import_all_sites: connect
\* has succeeded and the k-th CREATE TABLE of create_tables raises (a full
\* disk, a read-only file).  The tables created before it stay.  The
\* constructor call stands before the try whose finally closes the importer,
\* so no close() is called on this path: the connection stays open unless
\* the interpreter finalizes the unreferenced importer object before the
\* function returns.  The outer except logs and the function returns False.
CreateTablesFails(k) ==
  /\ pc = "init"
  /\ created' = created \cup {Tables[i] : i \in 1..(k - 1)}
  /\ conn' \in {"open", "closed"}
  /\ pc' = "idle"
  /\ outcome' = "error"
  /\ failed' = ""
  /\ error' = "create_tables"
  /\ UNCHANGED <<store, site, folder, ent, pos, batch, stats, imports,
                 runStart, entStart, began, lastImp, restart, fixed, queue,
                 log>>

\* import_all_sites with a table creation that can fail.
NextFault ==
  \/ \E sites \in SiteLists : AllStart(sites)
  \/ PreCheck
  \/ Construct
  \/ \E k \in 1..NumTables : CreateTablesFails(k)
  \/ CheckFile
  \/ Delete
  \/ Open
  \/ Loop
  \/ Final
  \/ Stats
  \/ Close

SpecFault == InitAll /\ [][NextFault]_vars

\* ------------------------------------- the six imports in any order
\* import_site_data with its calls in another order: every permutation of
\* the six tables.
TableOrders == Orderings(1..NumTables)

PermFolders ==
  { Folder(D12, D12, D12, D12, D12, D12),
    Folder(D3, D123, DEmpty, DAbsent, D3, D1) }

InitPerm ==
  /\ InitRun
  /\ batch_size = BatchSize
  /\ order \in TableOrders
  /\ data = [s \in Sites |-> MissingFolder]

MainPerm(f) == imports < MaxPermRuns /\ Invoke("a", f)

NextPerm ==
  \/ \E f \in PermFolders : MainPerm(f)
  \/ Construct
  \/ CheckFile
  \/ Delete
  \/ Open
  \/ Loop
  \/ Final
  \/ Stats
  \/ Close

SpecPerm == InitPerm /\ [][NextPerm]_vars

\* import_posts over streams of rows with distinct ids, for every batch
\* threshold from 1 to MaxThreshold.
StreamFolder(n) ==
  Folder(StreamDoc(n), DAbsent, DAbsent, DAbsent, DAbsent, DAbsent)

InitBatch ==
  /\ InitRun
  /\ batch_size \in 1..MaxThreshold
  /\ order = SourceOrder
  /\ data = [s \in Sites |-> MissingFolder]

NextBatch ==
  \/ \E n \in 0..MaxStream : Main("a", StreamFolder(n))
  \/ Construct
  \/ CheckFile
  \/ Delete
  \/ Open
  \/ Loop
  \/ Final
  \/ Stats
  \/ Close

SpecBatch == InitBatch /\ [][NextBatch]_vars

TypeOK ==
  /\ pc \in {"idle", "precheck", "init", "check", "delete", "open", "loop",
             "final", "stats", "close"}
  /\ conn \in {"none", "open", "closed"}
  /\ ent \in 1..NumTables
  /\ Len(batch) < batch_size

\* ------------------------------------------------------------ properties
\* The rows a file holds for a site: one tuple per row element, in order.
FileRows(t, site_name, doc) ==
  LET rows == SelectSeq(doc.elems, LAMBDA e : e.tag = "row")
  IN  [i \in 1..Len(rows) |-> RowData(t, site_name, rows[i])]

TableIndex(t) == CHOOSE i \in 1..NumTables : Tables[i] = t
Finished == pc = "idle" /\ outcome \in {"ok", "error"}

\* C1: importing the same file of an entity type for the same site twice in
\* succession leaves the site's rows of that table (count and set) as the
\* first import left them.
C1_ImportTwiceSameRows ==
  \A s \in Sites, t \in TableSet :
    LET h == lastImp[s][t]
    IN  (h.n = 2 /\ h.doc = h.pdoc) =>
          /\ Len(h.rows) = Len(h.prows)
          /\ RowSet(h.rows) = RowSet(h.prows)

C1_Witness ==
  \E s \in Sites, t \in TableSet :
    LET h == lastImp[s][t]
    IN  h.n = 2 /\ h.doc = h.pdoc /\ h.doc.present /\ Len(h.rows) >= 2

\* C2: in every state of an invocation for one site, the rows of every other
\* site in all six tables are what they were when the invocation started.
C2_OtherSitesUnchanged ==
  \A s \in Sites \ {site}, t \in TableSet :
    SiteRows(store[t], s) = SiteRows(runStart[t], s)

C2_Witness ==
  /\ imports = 2
  /\ pc = "idle"
  /\ outcome = "error"
  /\ store # runStart
  /\ \E s \in Sites \ {site}, t \in TableSet : Len(SiteRows(store[t], s)) >= 2

\* C3: after the import of an entity type failed, the site's rows of that
\* table are the rows that were there when the invocation started.
C3_FailureKeepsPriorRows ==
  (pc = "idle" /\ outcome = "error") =>
    SiteRows(store[failed], site) = SiteRows(runStart[failed], site)

\* C4: no table ever holds two rows with the same (site, id).
C4_KeyUnique ==
  \A t \in TableSet :
    \A i, j \in 1..Len(store[t]) :
      (store[t][i].site = store[t][j].site /\ store[t][i].id = store[t][j].id)
        => i = j

C4_Witness ==
  /\ pc = "idle"
  /\ \E t \in TableSet :
       LET h == lastImp[site][t]
       IN  /\ h.n = 2 /\ h.doc.present /\ h.pdoc.present
           /\ Len(SiteRows(store[t], site)) >= 2
           /\ \E r \in RowSet(h.prows) : r \in RowSet(SiteRows(store[t], site))

\* C5: after a successful re-import of a site whose file for an entity type
\* changed, the site's rows of that table are exactly the rows of the new
\* file, each once.
C5_ReimportReplaces ==
  (pc = "idle" /\ outcome = "ok") =>
    \A t \in TableSet :
      LET h == lastImp[site][t]
      IN  (h.n = 2 /\ h.doc.present /\ h.doc # h.pdoc) =>
            /\ RowSet(SiteRows(store[t], site)) = RowSet(FileRows(t, site, h.doc))
            /\ CountSite(store[t], site) = Len(FileRows(t, site, h.doc))

C5_Witness ==
  /\ pc = "idle"
  /\ outcome = "ok"
  /\ \E t \in TableSet :
       LET h == lastImp[site][t]
       IN  /\ h.n = 2 /\ h.doc.present /\ h.doc # h.pdoc
           /\ h.rows # <<>>
           /\ \E r \in RowSet(h.prows) : r \notin RowSet(SiteRows(store[t], site))

\* C7: no invocation is ended by a row's absent or malformed field value.
C7_MalformedFieldNeverAborts ==
  outcome = "error" => error \notin {"NotNull", "Conversion"}

\* C8 as stated: after an invocation that completed, the count
\* get_site_stats reported for a table whose file was absent is zero.
C8_AbsentFileReportsZero ==
  (pc = "idle" /\ outcome = "ok") =>
    \A t \in TableSet : ~folder.files[t].present => stats[t] = 0

\* C8 (amended): an absent file never makes the invocation fail, and after an
\* invocation that completed, the count reported for a table whose file was
\* absent is the number of rows the store held for the site in that table
\* when the invocation started.
C8_AbsentFileReportsStoredCount ==
  /\ outcome = "error" => folder.files[failed].present
  /\ (pc = "idle" /\ outcome = "ok") =>
       \A t \in TableSet :
         ~folder.files[t].present => stats[t] = CountSite(runStart[t], site)

C8_Witness ==
  /\ pc = "idle"
  /\ outcome = "ok"
  /\ \E t \in TableSet : ~folder.files[t].present /\ stats[t] > 0
  /\ \E t \in TableSet : ~folder.files[t].present /\ stats[t] = 0

\* C9: a failure of one entity type's import ends the invocation with the
\* error reported, and no later table of the sequence is entered.
C9_FailFast ==
  outcome = "error" =>
    /\ pc = "idle"
    /\ error # ""
    /\ began # <<>>
    /\ began[Len(began)] = failed
    /\ \A i \in 1..Len(began) : TableIndex(began[i]) <= TableIndex(failed)

C9_Witness ==
  /\ outcome = "error"
  /\ error \in {"XMLSyntax", "PrimaryKey"}
  /\ TableIndex(failed) < NumTables
  /\ \E i \in (TableIndex(failed) + 1)..NumTables : folder.files[Tables[i]].present

\* C10: when the import of an entity type fails, every other table, and the
\* other sites' rows of the failing table, are as they were when that
\* entity type's import began.
C10_FailureFrame ==
  (pc = "idle" /\ outcome = "error") =>
    /\ \A t \in TableSet \ {failed} : store[t] = entStart[t]
    /\ \A s \in Sites \ {site} :
         SiteRows(store[failed], s) = SiteRows(entStart[failed], s)

C10_Witness ==
  /\ pc = "idle"
  /\ outcome = "error"
  /\ \E t \in TableSet :
       /\ TableIndex(t) < TableIndex(failed)
       /\ SiteRows(store[t], site) # SiteRows(runStart[t], site)
  /\ \E s \in Sites \ {site} : SiteRows(store[failed], s) # <<>>

\* Two stores hold the same rows in every table.
SameStore(a, b) ==
  \A t \in TableSet : Len(a[t]) = Len(b[t]) /\ RowSet(a[t]) = RowSet(b[t])

\* An invocation run to its end in one piece does what import_site_data does
\* as a function of the store it started from.
RunMatchesImportSiteData ==
  (Finished /\ restart.kills = 0) =>
    store = ImportSiteData(runStart, site, folder)

\* C6: when an invocation was terminated at any point and then run again to
\* its end over the same files, the store is what one uninterrupted run from
\* the store before the terminated invocation leaves.
C6_RestartSameAsOneRun ==
  (Finished /\ restart.kills > 0) =>
    SameStore(store, ImportSiteData(restart.start, site, folder))

C6_Witness ==
  /\ Finished
  /\ restart.kills > 0
  /\ restart.at = "loop"
  /\ restart.start # EmptyStore
  /\ ~SameStore(restart.partial, restart.start)
  /\ ~SameStore(restart.partial, store)

\* The rows the executemany statements of the log carry for table t, in the
\* order they were issued.
RECURSIVE Written(_, _)
Written(l, t) ==
  IF l = <<>> THEN <<>>
  ELSE IF Head(l).op = "insert" /\ Head(l).table = t
       THEN Head(l).rows \o Written(Tail(l), t)
       ELSE Written(Tail(l), t)

StreamLen == Len(folder.files["posts"].elems)

\* C11: for every threshold >= 1 and every stream of N >= 0 rows with
\* distinct ids, when the import has returned the rows carried by the batch
\* flushes are exactly the N rows of the stream, each once and in order, and
\* they are the site's rows in the table; while the loop runs, the rows
\* flushed so far followed by the batch are the rows read so far.
C11_FlushesWriteEachRowOnce ==
  LET rows == FileRows("posts", site, folder.files["posts"])
  IN  /\ Finished =>
            /\ outcome = "ok"
            /\ Written(log, "posts") = rows
            /\ SiteRows(store["posts"], site) = rows
      /\ (pc \in {"loop", "final"} /\ CurTable = "posts") =>
            Written(log, "posts") \o batch = SubSeq(rows, 1, pos - 1)

C11_Witness ==
  /\ Finished
  /\ batch_size > 1
  /\ StreamLen > batch_size
  /\ StreamLen % batch_size = 1
  /\ Len(SelectSeq(log, LAMBDA x : x.op = "insert")) >= 3
  /\ imports = 2

\* Streams shorter than the threshold and streams that are an exact multiple
\* of it are imported too.
C11_OtherCases ==
  \/ Finished /\ StreamLen > 0 /\ StreamLen < batch_size
  \/ Finished /\ StreamLen > 0 /\ StreamLen % batch_size = 0 /\ batch_size > 1
\* Every row of the file of table t for site s is in the store (nothing to
\* write when the file is absent).
Completed(s, t) ==
  LET d == data[s].files[t]
  IN  d.present => SiteRows(store[t], s) = FileRows(t, s, d)

\* C12: within one site the tables are entered in the order posts, users,
\* comments, votes, tags, badges and the statements (DELETE, INSERT) are
\* issued in that order; when a statement for a table has been issued, every
\* row of each preceding table of the site is written; the statements of
\* one site are not interleaved with those of another, and when a statement
\* for a site has been issued every table of each site imported before it
\* in the run is completely written.
C12_ImportOrder ==
  /\ \A i \in 1..Len(began) : began[i] = Tables[i]
  /\ \A j \in 1..Len(log) :
        /\ \A i \in 1..(j - 1) :
              IF log[i].site = log[j].site
              THEN TableIndex(log[i].table) <= TableIndex(log[j].table)
              ELSE /\ \A k \in j..Len(log) : log[k].site # log[i].site
                   /\ \A t \in TableSet : Completed(log[i].site, t)
        /\ \A t \in TableSet :
              TableIndex(t) < TableIndex(log[j].table) =>
                Completed(log[j].site, t)

C12_Witness ==
  /\ Finished
  /\ outcome = "ok"
  /\ Len(requested) = 2
  /\ \A s \in Sites, t \in TableSet :
        /\ \E j \in 1..Len(log) :
              log[j].site = s /\ log[j].table = t /\ log[j].op = "insert"
        /\ Len(FileRows(t, s, data[s].files[t])) > 0
\* C13: list_sites returns exactly the sites that have at least one row in
\* any of the six tables, each once, in sorted order.
C13_ListsEverySiteWithRows ==
  list_sites(store, created) =
    SelectSeq(SiteOrder,
              LAMBDA s : \E t \in TableSet : CountSite(store[t], s) > 0)
\* C14: when a run of import_all_sites has ended, the store is what importing
\* every requested site, in the order requested, would have made of the store
\* the run started from.
C14_SkipSameAsReimport ==
  (Finished /\ requested # <<>>) =>
    SameStore(store, ImportSites(runStart, requested))
\* Python's "not value" on an attribute: absent or the empty string (dates
\* are strings, the other raw values are sequences of characters).
FalsyDate(value) == value = None \/ value[1] = ""
Falsy(value) == value = None \/ value[1] = <<>>

\* C15: parse_date returns None on empty input, returns a date-time string
\* the database recognizes unmodified, returns None on any other input, and
\* never returns anything but its input or None.
C15_UnparseableDateIsNull ==
  (coerce.done /\ coerce.fn = "parse_date") =>
    /\ coerce.exc = ""
    /\ coerce.out \in {None, coerce.raw}
    /\ coerce.out =
         IF ~FalsyDate(coerce.raw) /\ coerce.raw[1] \in ValidDates
         THEN coerce.raw ELSE None
\* C16: when the data folder does not exist, the invocation has ended with
\* exit status 1 at the check in main: no import function was entered, no
\* statement was issued, the importer was not constructed (the connection is
\* as the previous invocation left it) and the store is what it was.
C16_MissingFolderExitsFirst ==
  (imports > 0 /\ ~folder.exists) =>
    /\ pc = "idle"
    /\ outcome = "exit1"
    /\ began = <<>>
    /\ log = <<>>
    /\ conn # "open"
    /\ store = runStart

C16_Witness ==
  /\ imports = 2
  /\ ~folder.exists
  /\ outcome = "exit1"
  /\ \E t \in TableSet : CountSite(store[t], site) > 0
\* The grammar of the integer strings: an optional sign and decimal digits.
Unsigned(s) == IF s # <<>> /\ s[1] \in {"+", "-"} THEN Tail(s) ELSE s
IsSignedDigits(s) ==
  LET u == Unsigned(s)
  IN  u # <<>> /\ \A i \in 1..Len(u) : IsDigit(u[i])

\* The same with blanks before and after, and single underscores between
\* digits.
IsIntLiteral(s) ==
  LET core == SelectSeq(s, LAMBDA c : ~IsSpace(c))
      u == Unsigned(core)
  IN  /\ \A i, j, k \in 1..Len(s) :
            (i < j /\ j < k) =>
              ~(~IsSpace(s[i]) /\ IsSpace(s[j]) /\ ~IsSpace(s[k]))
      /\ u # <<>>
      /\ \A i \in 1..Len(u) :
            \/ IsDigit(u[i])
            \/ /\ u[i] = "_"
               /\ 1 < i /\ i < Len(u)
               /\ IsDigit(u[i - 1]) /\ IsDigit(u[i + 1])

\* The integer such a string denotes: its digits weighted by powers of ten.
RECURSIVE Pow10(_)
Pow10(k) == IF k = 0 THEN 1 ELSE 10 * Pow10(k - 1)
LiteralValue(s) ==
  LET d == SelectSeq(s, IsDigit)
      w[i \in 0..Len(d)] ==
        IF i = 0 THEN 0 ELSE w[i - 1] + DigitVal(d[i]) * Pow10(Len(d) - i)
      negative == \E i \in 1..Len(s) : s[i] = "-"
  IN  IF negative THEN 0 - w[Len(d)] ELSE w[Len(d)]

\* C17 as stated: safe_int raises nothing, returns None for an absent or
\* empty value and for every value that is not an optionally signed string of
\* decimal digits, and the integer the digits denote otherwise.
C17_NullUnlessSignedDigits ==
  (coerce.done /\ coerce.fn = "safe_int") =>
    /\ coerce.exc = ""
    /\ coerce.out =
         IF ~Falsy(coerce.raw) /\ IsSignedDigits(coerce.raw[1])
         THEN Some(LiteralValue(coerce.raw[1])) ELSE None

\* C17: safe_int raises nothing, returns None for an absent or empty value
\* and for every value int() does not accept, and the integer otherwise;
\* int() accepts an optionally signed string of decimal digits, also with
\* blanks around it and with single underscores between its digits.
C17_NullUnlessIntLiteral ==
  (coerce.done /\ coerce.fn = "safe_int") =>
    /\ coerce.exc = ""
    /\ coerce.out =
         IF ~Falsy(coerce.raw) /\ IsIntLiteral(coerce.raw[1])
         THEN Some(LiteralValue(coerce.raw[1])) ELSE None
    /\ coerce.raw = Some(<<"4", "2">>) => coerce.out = Some(42)
    /\ coerce.raw = SAbc => coerce.out = None

C17_Witness ==
  /\ coerce.done
  /\ coerce.fn = "safe_int"
  /\ coerce.raw = Some(<<"-", "4", "2">>)
  /\ coerce.out = Some(0 - 42)
\* "true" in any mixture of upper and lower case.
IsTrueAnyCase(s) ==
  /\ Len(s) = 4
  /\ s[1] \in {"t", "T"}
  /\ s[2] \in {"r", "R"}
  /\ s[3] \in {"u", "U"}
  /\ s[4] \in {"e", "E"}

\* C18: safe_bool raises nothing, returns None for an absent or empty value,
\* True exactly when the value is "true" in any mixture of cases, and False
\* for every other non-empty value ("True" -> True, "false" -> False,
\* "yes" -> False).
C18_TrueIffTrueAnyCase ==
  (coerce.done /\ coerce.fn = "safe_bool") =>
    /\ coerce.exc = ""
    /\ coerce.out =
         IF Falsy(coerce.raw) THEN None
         ELSE Some(IsTrueAnyCase(coerce.raw[1]))
    /\ coerce.raw = Some(<<"T", "r", "u", "e">>) => coerce.out = Some(TRUE)
    /\ coerce.raw = Some(<<"f", "a", "l", "s", "e">>) => coerce.out = Some(FALSE)
    /\ coerce.raw = Some(<<"y", "e", "s">>) => coerce.out = Some(FALSE)

C18_Witness ==
  /\ coerce.done
  /\ coerce.fn = "safe_bool"
  /\ coerce.raw = Some(<<"T", "r", "U", "e">>)
  /\ coerce.out = Some(TRUE)
\* C19: whatever the order in which the six tables of a site are imported,
\* an invocation that completes without failure leaves the store that the
\* import in the order of the source leaves from the same start, and that
\* import completes too; so any two orders that complete agree.
C19_OrderIrrelevant ==
  (Finished /\ outcome = "ok") =>
    /\ ImportErrFrom(runStart, site, folder, 1) = ""
    /\ store = ImportSiteData(runStart, site, folder)

C19_Witness ==
  /\ Finished
  /\ outcome = "ok"
  /\ imports = 2
  /\ order[1] = NumTables
  /\ order[NumTables] = 1
  /\ \A t \in TableSet : Len(store[t]) > 0
  /\ store # runStart
\* C20: in every import of a table whose file exists the DELETE of the
\* site's rows is issued exactly once, on a table that exists, before the
\* first INSERT of that import, and no DELETE follows an INSERT.
C20_DeleteOnceBeforeInserts ==
  \A t \in TableSet :
    LET idx == {j \in 1..Len(log) : log[j].table = t}
        dels == {j \in idx : log[j].op = "delete"}
        entered == \E i \in 1..Len(began) : began[i] = t
        issued == /\ entered
                  /\ folder.files[t].present
                  /\ ~(pc = "delete" /\ CurTable = t)
    IN  /\ issued => Cardinality(dels) = 1
        /\ Cardinality(dels) <= 1
        /\ \A d \in dels :
              /\ log[d].existed
              /\ log[d].site = site
              /\ \A j \in idx : j >= d
        /\ \A j \in idx : log[j].op = "insert" => \E d \in dels : d < j

C20_Witness ==
  /\ Finished
  /\ outcome = "ok"
  /\ \E t \in TableSet :
        /\ CountSite(runStart[t], site) > 0
        /\ Cardinality({j \in 1..Len(log) :
                          log[j].table = t /\ log[j].op = "delete"}) = 1
        /\ Cardinality({j \in 1..Len(log) :
                          log[j].table = t /\ log[j].op = "insert"}) >= 2
\* The rows among the elements the parser has yielded so far.
RowsRead ==
  Len(SelectSeq(SubSeq(CurDoc.elems, 1, pos - 1), LAMBDA e : e.tag = "row"))

Inserts(t) == {j \in 1..Len(log) : log[j].op = "insert" /\ log[j].table = t}

\* C21: the batch is always shorter than the threshold between two steps
\* and holds exactly the rows read since the last executemany, so it is empty
\* right after each; every executemany carries between 1 and batch_size
\* rows; all but the last of an import carry exactly batch_size rows, and one
\* that carries fewer is issued only after the end of the stream; an import
\* of N rows that returns has issued N / batch_size executemany statements,
\* rounded up, hence none for an empty remainder.
C21_BatchBounded ==
  /\ Len(batch) < batch_size
  /\ pc \in {"loop", "final"} =>
        Len(batch) = RowsRead - Len(Written(log, CurTable))
  /\ \A j \in 1..Len(log) :
        log[j].op = "insert" =>
          /\ Len(log[j].rows) >= 1
          /\ Len(log[j].rows) <= batch_size
          /\ (\E k \in Inserts(log[j].table) : k > j) =>
                Len(log[j].rows) = batch_size
          /\ Len(log[j].rows) < batch_size =>
                ~(pc \in {"loop", "final"} /\ CurTable = log[j].table)
  /\ (Finished /\ outcome = "ok") =>
        \A t \in TableSet :
          LET n == Len(FileRows(t, site, folder.files[t]))
              k == Cardinality(Inserts(t))
          IN  /\ k * batch_size >= n
              /\ n > 0 => (k - 1) * batch_size < n
              /\ n = 0 => k = 0

C21_Witness ==
  /\ Finished
  /\ outcome = "ok"
  /\ batch_size >= 2
  /\ StreamLen = 2 * batch_size
  /\ Cardinality(Inserts("posts")) = 2
  /\ log[Len(log)].op = "insert"
  /\ Len(log[Len(log)].rows) = batch_size
\* C22: for a table whose file is absent the invocation issues no DELETE and
\* no INSERT and the table is what it was when the invocation started, the
\* site's rows and every other site's; and the import of such a table leaves
\* the whole store as it found it.
C22_AbsentFileNoOp ==
  /\ \A t \in TableSet :
        ~folder.files[t].present =>
          /\ \A j \in 1..Len(log) : log[j].table # t
          /\ store[t] = runStart[t]
  /\ (began # <<>> /\ ~folder.files[began[Len(began)]].present) =>
        store = entStart

C22_Witness ==
  /\ Finished
  /\ outcome = "ok"
  /\ \E t \in TableSet :
        /\ ~folder.files[t].present
        /\ CountSite(store[t], site) > 0
  /\ \E t \in TableSet : folder.files[t].present /\ store[t] # runStart[t]
\* import_all_sites has returned.
Returned == pc = "idle" /\ requested # <<>>

\* C23: in a run of import_all_sites the pre-check's connection and the
\* importer's are never open together, and neither is open when the
\* function has returned, whether it returned True or, after a failure of the
\* pre-check query, of create_tables or of an import, False.
C23_OneConnectionAllClosed ==
  /\ ~(checkconn = "open" /\ conn = "open")
  /\ Returned => (checkconn # "open" /\ conn # "open")
\* The sites a sequence holds.
Range(q) == {q[i] : i \in DOMAIN q}

\* C24: when import_all_sites has returned it has returned True or False;
\* after a failed import it returned False, the sites after the failing one
\* in its list had no statement issued and their rows are what they were;
\* it returned True only with every site of its list imported: every table
\* of each holds the rows of its file and no import raised.
C24_FailureStopsRun ==
  /\ outcome = "error" => pc = "idle"
  /\ Returned =>
        /\ outcome \in {"ok", "error"}
        /\ outcome = "ok" <=> failed = ""
        /\ outcome = "error" =>
              /\ site \in Range(plan)
              /\ site \notin Range(queue)
              /\ \A s \in Range(queue) :
                    /\ \A j \in 1..Len(log) : log[j].site # s
                    /\ \A t \in TableSet :
                          SiteRows(store[t], s) = SiteRows(runStart[t], s)
        /\ outcome = "ok" =>
              /\ queue = <<>>
              /\ \A s \in Range(plan), t \in TableSet : Completed(s, t)

C24_Witness ==
  /\ Returned
  /\ outcome = "error"
  /\ Len(plan) = 2
  /\ queue # <<>>
  /\ failed = "users"
  /\ \E j \in 1..Len(log) : log[j].op = "insert"
  /\ \A t \in TableSet : Len(FileRows(t, queue[1], data[queue[1]].files[t])) > 0
====
